---- MODULE Spec2Model ----
(***************************************************************************)
(* The Lunch Store of src-tauri/src/db.rs: a Mutex<Connection> around two  *)
(* SQLite tables, lunch_list(restaurants PRIMARY KEY, option) and          *)
(* recent_lunch(restaurants PRIMARY KEY, date), and the operations         *)
(* list_all, list_by_category, add, delete, roll and seed_database, each   *)
(* called from any of the caller threads of the command layer (lib.rs).    *)
(* lib.rs also calls Database::update, which db.rs does not define; it is  *)
(* modelled from its contract.                                             *)
(*                                                                         *)
(* TEXT values are sequences of character codes, so that LOWER(), the      *)
(* BINARY collation of ORDER BY and the RFC 3339 text of a timestamp are   *)
(* computed as SQLite and chrono compute them.  A table is a set of rows;  *)
(* its PRIMARY KEY is enforced by the INSERT operators, not by the         *)
(* representation.  Storage I/O errors are not modelled: every statement   *)
(* runs to completion.                                                     *)
(***************************************************************************)
EXTENDS Integers, Sequences, FiniteSets, TLC

VARIABLES
    lunch_list,     \* table lunch_list: set of [name, category]
    recent_lunch,   \* table recent_lunch: set of [name, date]
    conn,           \* Database.conn: the thread holding the Mutex, or Unlocked
    clock,          \* number of Utc::now() readings taken so far
    pc,             \* per thread: where it is in the operation it runs
    args,           \* per thread: the arguments of the operation it runs
    restaurants,    \* per thread: roll's local `restaurants`
    chosen,         \* per thread: roll's local `chosen` (<<>> before the choice)
    result,         \* per thread: what its last completed operation returned
    lastRolled,     \* history: the name of the pick recorded last (Option)
    lastReturned,   \* history: the name the last successful roll returned
    picked,         \* history: every name ever picked, with the clock
                    \*          reading of its latest pick
    calls           \* history: number of operations invoked so far

vars == << lunch_list, recent_lunch, conn, clock, pc, args, restaurants,
           chosen, result, lastRolled, lastReturned, picked, calls >>

\* the history variables, which no operation reads
history == << lastRolled, lastReturned, picked >>

-----------------------------------------------------------------------------
(* Bounds of the model *)

\* operations invoked in one behaviour when callers overlap
MaxCalls == 3

\* operations invoked in one behaviour when each completes before the next
MaxSeqCalls == 6

\* `LIMIT 14` of roll's prune
HistoryCap == 14

Threads == {1, 2}

\* states of the Mutex other than "held by thread t"
Unlocked == 0

Poisoned == -1

-----------------------------------------------------------------------------
(* TEXT values *)

Empty == << >>

\* restaurant names "A", "B", "C"
NameA == << 65 >>
NameB == << 66 >>
NameC == << 67 >>

\* categories "ch", "Ch", "CH", "n"
cat_ch == << 99, 104 >>
cat_Ch == << 67, 104 >>
cat_CH == << 67, 72 >>
cat_n == << 110 >>

\* Option<T>: None is << >>, Some(x) is << x >>
None == << >>

Some(x) == << x >>

\* SQLite's LOWER(): folds the 26 ASCII upper-case letters only
LowerChar(c) == IF c \in 65..90 THEN c + 32 ELSE c

LOWER(s) == [i \in 1..Len(s) |-> LowerChar(s[i])]

\* BINARY collation (memcmp, then the shorter first): a < b
RECURSIVE TextLessFrom(_, _, _)
TextLessFrom(a, b, i) ==
    IF i > Len(a) THEN i <= Len(b)
    ELSE IF i > Len(b) THEN FALSE
    ELSE IF a[i] # b[i] THEN a[i] < b[i]
    ELSE TextLessFrom(a, b, i + 1)

TextLess(a, b) == TextLessFrom(a, b, 1)

-----------------------------------------------------------------------------
(* Utc::now().to_rfc3339() *)

\* The n-th reading of the system clock, as seconds and nanoseconds since
\* the Unix epoch.  Successive readings are strictly later; they run through
\* the four widths of the fractional part and cross a minute and an hour.
Instant(n) ==
    [sec |-> 3598 + (n \div 4),
     nano |-> CASE n % 4 = 0 -> 0
                [] n % 4 = 1 -> 250000000
                [] n % 4 = 2 -> 250001000
                [] OTHER -> 250001001]

RECURSIVE Pad(_, _)
\* n in decimal, zero-padded to `width` digits
Pad(n, width) ==
    IF width = 0 THEN << >>
    ELSE Append(Pad(n \div 10, width - 1), 48 + (n % 10))

\* chrono's automatic sub-second precision: none, 3, 6 or 9 digits
Fraction(nano) ==
    IF nano = 0 THEN << >>
    ELSE IF nano % 1000000 = 0 THEN << 46 >> \o Pad(nano \div 1000000, 3)
    ELSE IF nano % 1000 = 0 THEN << 46 >> \o Pad(nano \div 1000, 6)
    ELSE << 46 >> \o Pad(nano, 9)

\* "1970-01-01THH:MM:SS[.fff[fff[fff]]]+00:00" (instants of the first day)
to_rfc3339(t) ==
    << 49, 57, 55, 48, 45, 48, 49, 45, 48, 49, 84 >>
    \o Pad(t.sec \div 3600, 2) \o << 58 >>
    \o Pad((t.sec % 3600) \div 60, 2) \o << 58 >>
    \o Pad(t.sec % 60, 2)
    \o Fraction(t.nano)
    \o << 43, 48, 48, 58, 48, 48 >>

-----------------------------------------------------------------------------
(* The SQL statements *)

Restaurant(name, category) == [name |-> name, category |-> category]

\* mutant: INSERT OR REPLACE, which overwrites the row of an existing name
InsertLunch_OrReplace(table, name, category) ==
    [status |-> "Ok",
     table |-> {r \in table : r.name # name}
                   \cup {[name |-> name, category |-> category]}]

\* mutant: a table created without its PRIMARY KEY
InsertLunch_NoKey(table, name, category) ==
    [status |-> "Ok",
     table |-> table \cup {[name |-> name, category |-> category]}]

\* mutant: the two values bound in the wrong order
InsertLunch_Swapped(table, name, category) ==
    IF \E r \in table : r.name = category
    THEN [status |-> "UniqueViolation", table |-> table]
    ELSE [status |-> "Ok",
          table |-> table \cup {[name |-> category, category |-> name]}]

\* INSERT INTO lunch_list (restaurants, option) VALUES (?, ?)
\* fails on the PRIMARY KEY and then changes nothing
InsertLunch(table, name, category) ==
    IF \E r \in table : r.name = name
    THEN [status |-> "UniqueViolation", table |-> table]
    ELSE [status |-> "Ok", table |-> table \cup {Restaurant(name, category)}]

\* mutant: the WHERE clause compares the category column
DeleteLunch_ByCategory(table, name) == {r \in table : r.category # name}

\* DELETE FROM lunch_list WHERE restaurants = ?
DeleteLunch(table, name) == {r \in table : r.name # name}

\* mutant: rename without looking for the new name
UpdateLunch_NoCollisionCheck(table, original, name, category) ==
    IF original \notin {r.name : r \in table}
    THEN [status |-> "NotFound", table |-> table]
    ELSE [status |-> "Ok",
          table |-> {r \in table : r.name # original}
                        \cup {[name |-> name, category |-> category]}]

\* update(originalName, newName, newCategory): the entry named originalName
\* gets the new name and category; NotFound without such an entry, the
\* duplicate-name error when another entry has the new name
UpdateLunch(table, original, name, category) ==
    IF original \notin {r.name : r \in table}
    THEN [status |-> "NotFound", table |-> table]
    ELSE IF name # original /\ name \in {r.name : r \in table}
    THEN [status |-> "UniqueViolation", table |-> table]
    ELSE [status |-> "Ok",
          table |-> {r \in table : r.name # original}
                        \cup {[name |-> name, category |-> category]}]

\* mutant: WHERE option = ?, without LOWER()
SelectByCategory_Exact(table, category) ==
    {r \in table : r.category = category}

\* SELECT restaurants, option FROM lunch_list WHERE LOWER(option) = LOWER(?)
SelectByCategory(table, category) ==
    {r \in table : LOWER(r.category) = LOWER(category)}

RECURSIVE SortByName(_)
\* the rows of a set in ascending BINARY order of their names
SortByName(rows) ==
    IF rows = {} THEN << >>
    ELSE LET first == CHOOSE r \in rows :
                          \A q \in rows : ~TextLess(q.name, r.name)
         IN  << first >> \o SortByName(rows \ {first})

\* SELECT restaurants, option FROM lunch_list ORDER BY restaurants
SelectAllOrdered(table) == SortByName(table)

\* SELECT COUNT(*) FROM lunch_list
CountLunch(table) == Cardinality(table)

\* mutant: ORDER BY date LIMIT 1, which is ascending: the oldest row
SelectLast_Oldest(table) ==
    {r.name : r \in {r \in table : \A q \in table : ~TextLess(q.date, r.date)}}

\* SELECT restaurants FROM recent_lunch ORDER BY date DESC LIMIT 1:
\* the names the query may return (one of the rows with the greatest date)
SelectLast(table) ==
    {r.name : r \in {r \in table : \A q \in table : ~TextLess(r.date, q.date)}}

\* mutant: a plain INSERT into a table without its PRIMARY KEY
InsertOrReplaceRecent_NoReplace(table, name, date) ==
    table \cup {[name |-> name, date |-> date]}

\* INSERT OR REPLACE INTO recent_lunch (restaurants, date) VALUES (?, ?)
InsertOrReplaceRecent(table, name, date) ==
    {r \in table : r.name # name} \cup {[name |-> name, date |-> date]}

\* mutant: LIMIT 15
PruneRecent_OneMore(table) ==
    {r \in table :
        Cardinality({q \in table : TextLess(r.date, q.date)}) <= HistoryCap}

\* mutant: ORDER BY date ASC, which keeps the oldest rows
PruneRecent_Oldest(table) ==
    {r \in table :
        Cardinality({q \in table : TextLess(q.date, r.date)}) < HistoryCap}

\* DELETE FROM recent_lunch WHERE restaurants NOT IN
\*   (SELECT restaurants FROM recent_lunch ORDER BY date DESC LIMIT 14)
PruneRecent(table) ==
    {r \in table :
        Cardinality({q \in table : TextLess(r.date, q.date)}) < HistoryCap}

-----------------------------------------------------------------------------
(* roll's candidate pool *)

\* mutant: every restaurant of the retained history is filtered out
Available_NoHistory(rs, last) ==
    {r \in rs : r.name \notin {q.name : q \in recent_lunch}}

\* mutant: the filter is left out
Available_NoFilter(rs, last) == rs

\* restaurants.iter().filter(|r| Some(&r.name) != last.as_ref())
Available(rs, last) == {r \in rs : Some(r.name) # last}

\* mutant: no fall back to the unfiltered list
Pool_NoFallback(rs, last) == {r \in rs : Some(r.name) # last}

\* if available.is_empty() { restaurants } else { available }
Pool(rs, last) == IF Available(rs, last) = {} THEN rs ELSE Available(rs, last)

-----------------------------------------------------------------------------
(* The embedded seed file and the inputs of the callers *)

\* records of lunch_list.csv after its header: two complete ones, one with
\* a single field, one with an empty name and one with an empty category
SeedCsv ==
    << << NameA, cat_ch >>, << NameB, cat_Ch >>, << NameC >>,
       << Empty, cat_n >>, << NameC, Empty >> >>

AddInputs ==
    { << NameA, cat_ch >>, << NameB, cat_Ch >>, << NameB, cat_n >>,
      << NameC, cat_CH >>, << NameC, Empty >>, << Empty, cat_ch >> }

DeleteInputs == {NameA, NameB, NameC}

QueryCategories == {cat_CH, cat_n}

\* list_by_category is also asked in every casing of a stored category
ListCategories == {cat_ch, cat_Ch, cat_CH, cat_n}

\* (original_name, new_name, new_category): a rename and a recategorisation
UpdateInputs == { << NameA, NameB, cat_n >>, << NameB, NameB, cat_n >> }

\* a restaurant picked and deleted again before the store was last closed
Ghost(i) == << 71, 96 + i >>

GhostRows(k) ==
    {[name |-> Ghost(i), date |-> to_rfc3339(Instant(i))] : i \in 1..k}

GhostPicks(k) == {[name |-> Ghost(i), tick |-> i] : i \in 1..k}

-----------------------------------------------------------------------------
(* Types of the per-thread state *)

NoArgs == [name |-> Empty, category |-> Empty]

\* the arguments of update: `name` is original_name
UpdateArgs(original, name, category) ==
    [name |-> original, category |-> category, new_name |-> name]

NoResult == [op |-> "none", status |-> "none", value |-> << >>]

Return(op, status, value) == [op |-> op, status |-> status, value |-> value]

-----------------------------------------------------------------------------
(* seed_database *)

RECURSIVE SeedFrom(_, _)
\* the loop over reader.records(): a record with two non-empty fields is
\* inserted, any other is skipped, and the first failing INSERT ends the loop
SeedFrom(table, i) ==
    IF i > Len(SeedCsv) THEN [status |-> "Ok", table |-> table]
    ELSE LET record == SeedCsv[i]
         IN  IF Len(record) >= 2 /\ record[1] # Empty /\ record[2] # Empty
             THEN LET ins == InsertLunch(table, record[1], record[2])
                  IN  IF ins.status # "Ok" THEN ins
                      ELSE SeedFrom(ins.table, i + 1)
             ELSE SeedFrom(table, i + 1)

\* mutant: the seed runs whatever the row count
SeedDatabase_NoCount(table) == SeedFrom(table, 1)

\* if count > 0 { return Ok(()) } ... for result in reader.records() ...
SeedDatabase(table) ==
    IF CountLunch(table) > 0 THEN [status |-> "Ok", table |-> table]
    ELSE SeedFrom(table, 1)

-----------------------------------------------------------------------------
(* Construction *)

\* Database::in_memory() leaves both tables empty; Database::new() seeds an
\* empty lunch_list and otherwise finds the tables an earlier run left in the
\* file: here a history of HistoryCap - 1 picks of restaurants deleted since.
InitHistories == {0, HistoryCap - 1}

Init ==
    /\ lunch_list \in {{}, SeedDatabase({}).table}
    /\ \E k \in InitHistories :
         /\ recent_lunch = GhostRows(k)
         /\ clock = k
         /\ lastRolled = IF k = 0 THEN None ELSE Some(Ghost(k))
         /\ lastReturned = IF k = 0 THEN None ELSE Some(Ghost(k))
         /\ picked = GhostPicks(k)
    /\ conn = Unlocked
    /\ pc = [t \in Threads |-> "idle"]
    /\ args = [t \in Threads |-> NoArgs]
    /\ restaurants = [t \in Threads |-> {}]
    /\ chosen = [t \in Threads |-> None]
    /\ result = [t \in Threads |-> NoResult]
    /\ calls = 0

-----------------------------------------------------------------------------
(* A caller invokes an operation *)

\* `limit` bounds the operations invoked in one behaviour
Invoke(t, label, a, limit) ==
    /\ pc[t] = "idle"
    /\ calls < limit
    /\ pc' = [pc EXCEPT ![t] = label]
    /\ args' = [args EXCEPT ![t] = a]
    /\ result' = [result EXCEPT ![t] = NoResult]
    /\ calls' = calls + 1
    /\ UNCHANGED << lunch_list, recent_lunch, conn, clock, restaurants,
                    chosen, history >>

CallListAll(t, limit) == Invoke(t, "list_all_lock", NoArgs, limit)

CallListByCategory(t, limit) ==
    \E c \in ListCategories :
        Invoke(t, "list_by_category_lock",
               [name |-> Empty, category |-> c], limit)

CallAdd(t, limit) ==
    \E a \in AddInputs :
        Invoke(t, "add_lock", [name |-> a[1], category |-> a[2]], limit)

CallDelete(t, limit) ==
    \E n \in DeleteInputs :
        Invoke(t, "delete_lock", [name |-> n, category |-> Empty], limit)

CallRoll(t, limit) ==
    \E c \in QueryCategories :
        Invoke(t, "roll_list_lock", [name |-> Empty, category |-> c], limit)

CallSeed(t, limit) == Invoke(t, "seed_lock", NoArgs, limit)

CallUpdate(t, limit) ==
    \E u \in UpdateInputs :
        Invoke(t, "update_lock", UpdateArgs(u[1], u[2], u[3]), limit)

-----------------------------------------------------------------------------
(* self.conn.lock().unwrap() *)

LockLabels ==
    {"list_all_lock", "list_by_category_lock", "add_lock", "delete_lock",
     "roll_list_lock", "roll_lock", "seed_lock", "update_lock"}

Locked(label) ==
    CASE label = "list_all_lock" -> "list_all"
      [] label = "list_by_category_lock" -> "list_by_category"
      [] label = "add_lock" -> "add"
      [] label = "delete_lock" -> "delete"
      [] label = "roll_list_lock" -> "roll_list"
      [] label = "roll_lock" -> "roll_pick"
      [] label = "seed_lock" -> "seed"
      [] label = "update_lock" -> "update"

\* a panic unwinds the caller's thread; a guard it held poisons the Mutex
Panic(t, op, mutex) ==
    /\ conn' = mutex
    /\ pc' = [pc EXCEPT ![t] = "panicked"]
    /\ result' = [result EXCEPT ![t] = Return(op, "Panic", << >>)]

\* blocks while another thread holds the guard; lock() on a poisoned Mutex
\* is an Err, which unwrap() turns into a panic
Lock(t) ==
    /\ pc[t] \in LockLabels
    /\ conn \in {Unlocked, Poisoned}
    /\ IF conn = Poisoned
       THEN Panic(t, Locked(pc[t]), Poisoned)
       ELSE /\ conn' = t
            /\ pc' = [pc EXCEPT ![t] = Locked(pc[t])]
            /\ UNCHANGED result
    /\ UNCHANGED << lunch_list, recent_lunch, clock, args, restaurants,
                    chosen, history, calls >>

\* the guard is dropped and the operation returns to its caller
Finish(t, r) ==
    /\ conn' = Unlocked
    /\ pc' = [pc EXCEPT ![t] = "idle"]
    /\ result' = [result EXCEPT ![t] = r]

-----------------------------------------------------------------------------
(* The bodies of the operations, each run with the guard held *)

list_all(t) ==
    /\ pc[t] = "list_all"
    /\ conn = t
    /\ Finish(t, Return("list_all", "Ok", SelectAllOrdered(lunch_list)))
    /\ UNCHANGED << lunch_list, recent_lunch, clock, args, restaurants,
                    chosen, history, calls >>

list_by_category(t) ==
    /\ pc[t] = "list_by_category"
    /\ conn = t
    /\ Finish(t, Return("list_by_category", "Ok",
                        SelectByCategory(lunch_list, args[t].category)))
    /\ UNCHANGED << lunch_list, recent_lunch, clock, args, restaurants,
                    chosen, history, calls >>

add(t) ==
    /\ pc[t] = "add"
    /\ conn = t
    /\ LET ins == InsertLunch(lunch_list, args[t].name, args[t].category)
       IN  /\ lunch_list' = ins.table
           /\ Finish(t, Return("add", ins.status, << >>))
    /\ UNCHANGED << recent_lunch, clock, args, restaurants, chosen,
                    history, calls >>

\* mutant: delete also removes the history row of the restaurant
delete_Cascade(t) ==
    /\ pc[t] = "delete"
    /\ conn = t
    /\ lunch_list' = {r \in lunch_list : r.name # args[t].name}
    /\ recent_lunch' = {r \in recent_lunch : r.name # args[t].name}
    /\ conn' = Unlocked
    /\ pc' = [pc EXCEPT ![t] = "idle"]
    /\ result' = [result EXCEPT ![t] = Return("delete", "Ok", << >>)]
    /\ UNCHANGED << clock, args, restaurants, chosen, lastRolled,
                    lastReturned, picked, calls >>

delete(t) ==
    /\ pc[t] = "delete"
    /\ conn = t
    /\ lunch_list' = DeleteLunch(lunch_list, args[t].name)
    /\ Finish(t, Return("delete", "Ok", << >>))
    /\ UNCHANGED << recent_lunch, clock, args, restaurants, chosen,
                    history, calls >>

seed_database(t) ==
    /\ pc[t] = "seed"
    /\ conn = t
    /\ LET seeded == SeedDatabase(lunch_list)
       IN  /\ lunch_list' = seeded.table
           /\ Finish(t, Return("seed_database", seeded.status, << >>))
    /\ UNCHANGED << recent_lunch, clock, args, restaurants, chosen,
                    history, calls >>

update(t) ==
    /\ pc[t] = "update"
    /\ conn = t
    /\ LET upd == UpdateLunch(lunch_list, args[t].name, args[t].new_name,
                              args[t].category)
       IN  /\ lunch_list' = upd.table
           /\ Finish(t, Return("update", upd.status, << >>))
    /\ UNCHANGED << recent_lunch, clock, args, restaurants, chosen,
                    history, calls >>

-----------------------------------------------------------------------------
(* roll *)

\* mutant: roll goes on with an empty list
roll_list_NoEmptyCheck(t) ==
    /\ pc[t] = "roll_list"
    /\ conn = t
    /\ restaurants' = [restaurants EXCEPT ![t] =
           {r \in lunch_list : LOWER(r.category) = LOWER(args[t].category)}]
    /\ conn' = Unlocked
    /\ pc' = [pc EXCEPT ![t] = "roll_lock"]
    /\ UNCHANGED << lunch_list, recent_lunch, clock, args, chosen, result,
                    lastRolled, lastReturned, picked, calls >>

\* mutant: roll keeps the guard of its list query and locks again
roll_list_KeepsGuard(t) ==
    /\ pc[t] = "roll_list"
    /\ conn = t
    /\ LET rs == SelectByCategory(lunch_list, args[t].category)
       IN  /\ restaurants' = [restaurants EXCEPT ![t] = rs]
           /\ IF rs = {}
              THEN /\ conn' = Unlocked
                   /\ pc' = [pc EXCEPT ![t] = "idle"]
                   /\ result' = [result EXCEPT ![t] =
                          Return("roll", "QueryReturnedNoRows", << >>)]
              ELSE /\ pc' = [pc EXCEPT ![t] = "roll_lock"]
                   /\ UNCHANGED << conn, result >>
    /\ UNCHANGED << lunch_list, recent_lunch, clock, args, chosen,
                    history, calls >>

\* let restaurants = self.list_by_category(category)?; the guard of
\* list_by_category is dropped when it returns, and an empty list ends roll
roll_list(t) ==
    /\ pc[t] = "roll_list"
    /\ conn = t
    /\ LET rs == SelectByCategory(lunch_list, args[t].category)
       IN  /\ restaurants' = [restaurants EXCEPT ![t] = rs]
           /\ conn' = Unlocked
           /\ IF rs = {}
              THEN /\ pc' = [pc EXCEPT ![t] = "idle"]
                   /\ result' = [result EXCEPT ![t] =
                          Return("roll", "QueryReturnedNoRows", << >>)]
              ELSE /\ pc' = [pc EXCEPT ![t] = "roll_lock"]
                   /\ UNCHANGED result
    /\ UNCHANGED << lunch_list, recent_lunch, clock, args, chosen,
                    history, calls >>

\* the names `last` may hold: None on an empty history
LastOptions(table) ==
    IF SelectLast(table) = {} THEN {None}
    ELSE {Some(n) : n \in SelectLast(table)}

\* read `last`, choose from the pool (choose() of an empty slice is None,
\* and unwrap() then panics with the guard held), INSERT OR REPLACE the pick
roll_pick(t) ==
    /\ pc[t] = "roll_pick"
    /\ conn = t
    /\ \E last \in LastOptions(recent_lunch) :
         IF Pool(restaurants[t], last) = {}
         THEN /\ Panic(t, "roll", Poisoned)
              /\ UNCHANGED << recent_lunch, clock, chosen, history >>
         ELSE \E c \in Pool(restaurants[t], last) :
                 /\ chosen' = [chosen EXCEPT ![t] = Some(c)]
                 /\ clock' = clock + 1
                 /\ recent_lunch' = InsertOrReplaceRecent(
                        recent_lunch, c.name, to_rfc3339(Instant(clock + 1)))
                 /\ lastRolled' = Some(c.name)
                 /\ picked' = {p \in picked : p.name # c.name}
                                  \cup {[name |-> c.name, tick |-> clock + 1]}
                 /\ pc' = [pc EXCEPT ![t] = "roll_prune"]
                 /\ UNCHANGED << conn, result, lastReturned >>
    /\ UNCHANGED << lunch_list, args, restaurants, calls >>

\* prune the history, drop the guard, Ok(chosen.clone())
roll_prune(t) ==
    /\ pc[t] = "roll_prune"
    /\ conn = t
    /\ recent_lunch' = PruneRecent(recent_lunch)
    /\ Finish(t, Return("roll", "Ok", chosen[t]))
    /\ chosen' = [chosen EXCEPT ![t] = None]
    /\ restaurants' = [restaurants EXCEPT ![t] = {}]
    /\ lastReturned' = Some(chosen[t][1].name)
    /\ UNCHANGED << lunch_list, clock, args, lastRolled, picked, calls >>

-----------------------------------------------------------------------------
(* Specifications *)

\* callers on any threads, overlapping freely
Next ==
    \/ \E t \in Threads : CallListAll(t, MaxCalls)
    \/ \E t \in Threads : CallListByCategory(t, MaxCalls)
    \/ \E t \in Threads : CallAdd(t, MaxCalls)
    \/ \E t \in Threads : CallDelete(t, MaxCalls)
    \/ \E t \in Threads : CallRoll(t, MaxCalls)
    \/ \E t \in Threads : CallSeed(t, MaxCalls)
    \/ \E t \in Threads : CallUpdate(t, MaxCalls)
    \/ \E t \in Threads : Lock(t)
    \/ \E t \in Threads : list_all(t)
    \/ \E t \in Threads : list_by_category(t)
    \/ \E t \in Threads : add(t)
    \/ \E t \in Threads : delete(t)
    \/ \E t \in Threads : seed_database(t)
    \/ \E t \in Threads : update(t)
    \/ \E t \in Threads : roll_list(t)
    \/ \E t \in Threads : roll_pick(t)
    \/ \E t \in Threads : roll_prune(t)

Spec == Init /\ [][Next]_vars

\* a single caller: each operation completes before the next starts
Caller == 1

SeqNext ==
    \/ CallListAll(Caller, MaxSeqCalls)
    \/ CallListByCategory(Caller, MaxSeqCalls)
    \/ CallAdd(Caller, MaxSeqCalls)
    \/ CallDelete(Caller, MaxSeqCalls)
    \/ CallRoll(Caller, MaxSeqCalls)
    \/ CallSeed(Caller, MaxSeqCalls)
    \/ CallUpdate(Caller, MaxSeqCalls)
    \/ Lock(Caller)
    \/ list_all(Caller)
    \/ list_by_category(Caller)
    \/ add(Caller)
    \/ delete(Caller)
    \/ seed_database(Caller)
    \/ update(Caller)
    \/ roll_list(Caller)
    \/ roll_pick(Caller)
    \/ roll_prune(Caller)

SeqSpec == Init /\ [][SeqNext]_vars

\* callers on any threads of a store with no history yet; the Mutex hands
\* the guard to every waiter in the end, and a thread that holds it runs on
MaxFairCalls == 3

FairInit == Init /\ recent_lunch = {}

FairNext ==
    \/ \E t \in Threads : CallListAll(t, MaxFairCalls)
    \/ \E t \in Threads : CallListByCategory(t, MaxFairCalls)
    \/ \E t \in Threads : CallAdd(t, MaxFairCalls)
    \/ \E t \in Threads : CallDelete(t, MaxFairCalls)
    \/ \E t \in Threads : CallRoll(t, MaxFairCalls)
    \/ \E t \in Threads : CallSeed(t, MaxFairCalls)
    \/ \E t \in Threads : CallUpdate(t, MaxFairCalls)
    \/ \E t \in Threads : Lock(t)
    \/ \E t \in Threads : list_all(t)
    \/ \E t \in Threads : list_by_category(t)
    \/ \E t \in Threads : add(t)
    \/ \E t \in Threads : delete(t)
    \/ \E t \in Threads : seed_database(t)
    \/ \E t \in Threads : update(t)
    \/ \E t \in Threads : roll_list(t)
    \/ \E t \in Threads : roll_pick(t)
    \/ \E t \in Threads : roll_prune(t)

\* the code an operation runs between taking the guard and dropping it
Body(t) ==
    \/ list_all(t)
    \/ list_by_category(t)
    \/ add(t)
    \/ delete(t)
    \/ seed_database(t)
    \/ update(t)
    \/ roll_list(t)
    \/ roll_pick(t)
    \/ roll_prune(t)

FairSpec ==
    /\ FairInit
    /\ [][FairNext]_vars
    /\ \A t \in Threads : WF_vars(Body(t)) /\ SF_vars(Lock(t))

-----------------------------------------------------------------------------
(* Vocabulary of the properties *)

Names(table) == {r.name : r \in table}

\* the restaurants of lunch_list whose category matches c, case folded
InCategory(c) == {r \in lunch_list : LOWER(r.category) = LOWER(c)}

\* thread t completes its operation in this step
Returns(t, label) == pc[t] = label /\ pc'[t] = "idle"

\* thread t, having run operation op, is back at its caller
Returned(t, op) == pc[t] = "idle" /\ result[t].op = op

\* no roll stands between its INSERT OR REPLACE and its prune
NoRollInFlight == \A t \in Threads : pc[t] # "roll_prune"

\* the names among the HistoryCap latest picks ever made
LatestPicked ==
    {p.name : p \in {p \in picked :
        Cardinality({q \in picked : q.tick > p.tick}) < HistoryCap}}

\* The clock readings are strictly increasing, so no two rows of
\* recent_lunch carry the same date and the ORDER BY of roll is total.
DatesDistinct ==
    \A r, q \in recent_lunch : r.date = q.date => r = q

-----------------------------------------------------------------------------
(* C1 *)

\* C1: in a sequential run, a successful roll on a category that holds at
\* least two restaurants never returns the name that the preceding
\* successful roll returned.
C1_NoImmediateRepeat ==
    [][\A t \in Threads :
          (Returns(t, "roll_prune")
             /\ Cardinality(InCategory(args[t].category)) >= 2)
          => /\ result'[t].status = "Ok"
             /\ Some(result'[t].value[1].name) # lastReturned]_vars

\* two rolls in succession on a category of exactly two restaurants have
\* returned, and the history holds both names
C1_Witness ==
    /\ Returned(Caller, "roll")
    /\ result[Caller].status = "Ok"
    /\ Cardinality(InCategory(args[Caller].category)) = 2
    /\ clock = 2
    /\ Names(recent_lunch) = Names(InCategory(args[Caller].category))

-----------------------------------------------------------------------------
(* C2 *)

\* C2: roll is one critical section: from its read of the category to its
\* prune, no step of another caller changes lunch_list or recent_lunch.
C2_RollIsOneCriticalSection ==
    [][\A t \in Threads :
          (pc[t] \in {"roll_lock", "roll_pick", "roll_prune"}
             /\ pc'[t] = pc[t])
          => /\ lunch_list' = lunch_list
             /\ recent_lunch' = recent_lunch]_vars

-----------------------------------------------------------------------------
(* C3 *)

\* C3: once every roll has completed its prune, recent_lunch holds at most
\* 14 rows.
C3_HistoryCapped ==
    NoRollInFlight => Cardinality(recent_lunch) <= HistoryCap

\* a prune has discarded the oldest row of a full history
C3_Witness ==
    /\ NoRollInFlight
    /\ Cardinality(recent_lunch) = HistoryCap
    /\ Ghost(1) \notin Names(recent_lunch)
    /\ clock > HistoryCap

-----------------------------------------------------------------------------
(* C4 *)

\* C4: once every roll has completed its prune, recent_lunch holds exactly
\* the (up to 14) distinct names whose latest picks are the most recent,
\* each with the date of that pick.
C4_KeepsMostRecent ==
    NoRollInFlight =>
        /\ Names(recent_lunch) = LatestPicked
        /\ \A r \in recent_lunch :
              \E p \in picked :
                 p.name = r.name /\ r.date = to_rfc3339(Instant(p.tick))

\* two prunes have each discarded a row, and a restaurant picked before
\* them is still in the history
C4_Witness ==
    /\ NoRollInFlight
    /\ Cardinality(picked) >= HistoryCap + 2
    /\ \E r \in recent_lunch :
          \E p \in picked : p.name = r.name /\ p.tick < HistoryCap

-----------------------------------------------------------------------------
(* C5 *)

\* C5: in a sequential run, a roll on a category of exactly one restaurant
\* succeeds and returns that restaurant.
C5_SingleOptionAlwaysReturned ==
    \A t \in Threads :
        (/\ pc[t] \in {"idle", "panicked"}
         /\ result[t].op = "roll"
         /\ Cardinality(InCategory(args[t].category)) = 1)
        => /\ result[t].status = "Ok"
           /\ result[t].value[1] \in InCategory(args[t].category)

\* the one restaurant of a category was returned twice in succession
C5_Witness ==
    /\ Returned(Caller, "roll")
    /\ result[Caller].status = "Ok"
    /\ Cardinality(InCategory(args[Caller].category)) = 1
    /\ clock = 2
    /\ picked = {[name |-> result[Caller].value[1].name, tick |-> 2]}

-----------------------------------------------------------------------------
(* C6 *)

\* C6: add with a name already in lunch_list fails with the duplicate-name
\* error and changes neither table.
C6_DuplicateAddRejected ==
    [][\A t \in Threads :
          (Returns(t, "add") /\ args[t].name \in Names(lunch_list))
          => /\ result'[t].status = "UniqueViolation"
             /\ lunch_list' = lunch_list
             /\ recent_lunch' = recent_lunch]_vars

\* an add of an existing name under another category has failed, and the
\* entry still has its category
C6_Witness ==
    \E t \in Threads :
        /\ Returned(t, "add")
        /\ result[t].status = "UniqueViolation"
        /\ \E r \in lunch_list :
              r.name = args[t].name /\ r.category # args[t].category

-----------------------------------------------------------------------------
(* C7 *)

\* C7: no two entries of lunch_list share a name.
C7_NamesUnique ==
    \A r, q \in lunch_list : r.name = q.name => r = q

\* the seed rows and two added ones are in the list, and an add of one of
\* their names has been refused
C7_Witness ==
    /\ Cardinality(lunch_list) = 4
    /\ \E t \in Threads :
          Returned(t, "add") /\ result[t].status = "UniqueViolation"

-----------------------------------------------------------------------------
(* C8 *)

\* C8: roll on a category without restaurants fails with the no-candidates
\* error at once and changes neither table.
C8_EmptyCategoryFails ==
    [][\A t \in Threads :
          (pc[t] = "roll_list" /\ pc'[t] # pc[t]
             /\ InCategory(args[t].category) = {})
          => /\ pc'[t] = "idle"
             /\ result'[t] = Return("roll", "QueryReturnedNoRows", << >>)
             /\ lunch_list' = lunch_list
             /\ recent_lunch' = recent_lunch]_vars

\* a roll has failed on a category that is empty while another is not
C8_Witness ==
    \E t \in Threads :
        /\ Returned(t, "roll")
        /\ result[t].status = "QueryReturnedNoRows"
        /\ InCategory(args[t].category) = {}
        /\ lunch_list # {}

-----------------------------------------------------------------------------
(* C9 *)

\* C9: add with an empty name or an empty category is rejected and inserts
\* no row.
C9_EmptyFieldRejected ==
    [][\A t \in Threads :
          (Returns(t, "add")
             /\ (args[t].name = Empty \/ args[t].category = Empty))
          => /\ result'[t].status # "Ok"
             /\ lunch_list' = lunch_list]_vars

-----------------------------------------------------------------------------
(* C10 *)

\* C10: delete returns success; of an absent name it leaves lunch_list
\* unchanged, of a present name it removes that entry and no other.
C10_DeleteExactlyThatEntry ==
    [][\A t \in Threads :
          Returns(t, "delete")
          => /\ result'[t].status = "Ok"
             /\ \A r \in lunch_list :
                   r \in lunch_list' <=> r.name # args[t].name
             /\ lunch_list' \subseteq lunch_list]_vars

\* a delete of a name that is not in the non-empty list has returned
C10_Witness ==
    \E t \in Threads :
        /\ Returned(t, "delete")
        /\ result[t].status = "Ok"
        /\ args[t].name \notin Names(lunch_list)
        /\ Cardinality(lunch_list) >= 2

-----------------------------------------------------------------------------
(* C11 *)

\* the elements of a sequence
Range(seq) == {seq[i] : i \in 1..Len(seq)}

\* C11: add of a new name with non-empty fields succeeds, after it the list
\* holds exactly one entry of that name, with that category, and every
\* earlier entry unchanged; list_all returns every entry of the list once.
C11_AddThenListAll ==
    [][\A t \in Threads :
          /\ (Returns(t, "add")
                /\ args[t].name # Empty /\ args[t].category # Empty
                /\ args[t].name \notin Names(lunch_list))
             => /\ result'[t].status = "Ok"
                /\ {r \in lunch_list' : r.name = args[t].name}
                      = {[name |-> args[t].name,
                          category |-> args[t].category]}
                /\ {r \in lunch_list' : r.name # args[t].name} = lunch_list
          /\ Returns(t, "list_all")
             => /\ result'[t].status = "Ok"
                /\ Range(result'[t].value) = lunch_list
                /\ Len(result'[t].value) = Cardinality(lunch_list)]_vars

\* list_all has returned the two seed entries and an added third
C11_Witness ==
    /\ Returned(Caller, "list_all")
    /\ Len(result[Caller].value) = 3
    /\ [name |-> NameC, category |-> cat_CH] \in Range(result[Caller].value)
    /\ [name |-> NameA, category |-> cat_ch] \in Range(result[Caller].value)

-----------------------------------------------------------------------------
(* C12 *)

\* a and b are the same text up to the case of their ASCII letters
SameIgnoringCase(a, b) ==
    /\ Len(a) = Len(b)
    /\ \A i \in 1..Len(a) :
          \/ a[i] = b[i]
          \/ a[i] \in 65..90 /\ b[i] = a[i] + 32
          \/ a[i] \in 97..122 /\ b[i] = a[i] - 32

\* C12: list_by_category(c) returns exactly the entries whose stored
\* category is c up to case, each as it is stored.
C12_ListByCategoryIgnoresCase ==
    [][\A t \in Threads :
          Returns(t, "list_by_category")
          => /\ result'[t].status = "Ok"
             /\ result'[t].value =
                   {r \in lunch_list :
                       SameIgnoringCase(r.category, args[t].category)}]_vars

\* a query has returned two entries stored in casings other than its own,
\* and left out an entry of another category
C12_Witness ==
    /\ Returned(Caller, "list_by_category")
    /\ Cardinality({r \in result[Caller].value :
                       r.category # args[Caller].category}) >= 2
    /\ Cardinality({r.category : r \in result[Caller].value}) >= 2
    /\ lunch_list \ result[Caller].value # {}

-----------------------------------------------------------------------------
(* C13 *)

\* C13: seed_database on a non-empty lunch_list succeeds and changes neither
\* table.
C13_SeedOnNonEmptyIsNoOp ==
    [][\A t \in Threads :
          (Returns(t, "seed") /\ lunch_list # {})
          => /\ result'[t].status = "Ok"
             /\ lunch_list' = lunch_list
             /\ recent_lunch' = recent_lunch]_vars

\* the seed step has returned on a list that lacks a seed entry
C13_Witness ==
    /\ Returned(Caller, "seed_database")
    /\ lunch_list # {}
    /\ NameA \notin Names(lunch_list)

-----------------------------------------------------------------------------
(* C14 *)

\* C14: update fails with the not-found error when no entry has the original
\* name, and with the duplicate-name error when another entry than the
\* original has the new name; either failure leaves lunch_list unchanged,
\* and a success leaves the names of lunch_list unique.
C14_UpdateFailuresChangeNothing ==
    [][\A t \in Threads :
          Returns(t, "update")
          => /\ args[t].name \notin Names(lunch_list)
                => /\ result'[t].status = "NotFound"
                   /\ lunch_list' = lunch_list
             /\ (/\ args[t].name \in Names(lunch_list)
                 /\ args[t].new_name # args[t].name
                 /\ args[t].new_name \in Names(lunch_list))
                => /\ result'[t].status = "UniqueViolation"
                   /\ lunch_list' = lunch_list
             /\ result'[t].status = "Ok"
                => \A r, q \in lunch_list' : r.name = q.name => r = q]_vars

\* a rename to the name of another entry has been refused
C14_Witness ==
    /\ Returned(Caller, "update")
    /\ result[Caller].status = "UniqueViolation"
    /\ {args[Caller].name, args[Caller].new_name} \subseteq Names(lunch_list)
    /\ args[Caller].name # args[Caller].new_name

-----------------------------------------------------------------------------
(* C15 *)

\* C15: recent_lunch holds at most one row per name, and when a roll has
\* returned R and no pick was recorded after R's, the table holds a row of R
\* and no row with a later date.
C15_OneRowPerNameLatestIsThePick ==
    /\ \A r, q \in recent_lunch : r.name = q.name => r = q
    /\ \A t \in Threads :
          (/\ Returned(t, "roll")
           /\ result[t].status = "Ok"
           /\ lastRolled = Some(result[t].value[1].name))
          => \E r \in recent_lunch :
                /\ r.name = result[t].value[1].name
                /\ \A q \in recent_lunch : ~TextLess(r.date, q.date)

\* three picks have left two rows: a restaurant of the history was picked
\* again, and its row carries the date of the third pick
C15_Witness ==
    /\ \E t \in Threads : Returned(t, "roll") /\ result[t].status = "Ok"
    /\ clock = 3
    /\ Cardinality(recent_lunch) = 2
    /\ \E r \in recent_lunch :
          r.name = lastRolled[1] /\ r.date = to_rfc3339(Instant(3))

-----------------------------------------------------------------------------
(* C16 *)

\* C16: recent_lunch changes only in the steps of roll that record and prune
\* a pick; every step of another operation, delete among them, leaves it as
\* it is, so the row that is the most recent pick stays so after a delete.
C16_OnlyRollWritesHistory ==
    [][/\ recent_lunch' # recent_lunch
          => \E t \in Threads :
                pc[t] \in {"roll_pick", "roll_prune"} /\ pc'[t] # pc[t]
       /\ \A t \in Threads :
             Returns(t, "delete")
             => /\ recent_lunch' = recent_lunch
                /\ LastOptions(recent_lunch') = LastOptions(recent_lunch)]_vars

\* the restaurant picked last has been deleted, and its row is still the
\* one the next roll reads as the most recent pick
C16_Witness ==
    \E t \in Threads :
        /\ Returned(t, "delete")
        /\ lastRolled = Some(args[t].name)
        /\ args[t].name \notin Names(lunch_list)
        /\ LastOptions(recent_lunch) = {Some(args[t].name)}

-----------------------------------------------------------------------------
(* C17 *)

\* restaurant r has no row in recent_lunch, or a row that is not the latest
NotTheLatestPick(r) ==
    \A q \in recent_lunch :
        q.name = r.name => \E later \in recent_lunch : TextLess(q.date, later.date)

\* C17: in a sequential run, when roll chooses in a category of at least
\* two restaurants, it can choose every restaurant of the category that is
\* not the latest row of recent_lunch, rows of earlier picks included.
C17_OnlyTheLastPickExcluded ==
    \A t \in Threads :
        (/\ pc[t] = "roll_pick"
         /\ Cardinality(InCategory(args[t].category)) >= 2)
        => \A r \in InCategory(args[t].category) :
              NotTheLatestPick(r)
              => ENABLED (roll_pick(t) /\ chosen'[t] = Some(r))

\* roll chooses in a category of three restaurants, two of them in the
\* history from earlier rolls
C17_Witness ==
    /\ pc[Caller] = "roll_pick"
    /\ Cardinality(InCategory(args[Caller].category)) = 3
    /\ Cardinality(Names(InCategory(args[Caller].category))
                      \cap Names(recent_lunch)) = 2

\* roll chooses in a category while the latest pick is a restaurant of
\* another category that is still in the list
C17_OtherCategoryCase ==
    /\ pc[Caller] = "roll_pick"
    /\ Cardinality(InCategory(args[Caller].category)) >= 2
    /\ \E r \in lunch_list \ InCategory(args[Caller].category) :
          lastRolled = Some(r.name)

-----------------------------------------------------------------------------
(* C18 *)

\* C18: the restaurant that a roll records in recent_lunch is, at that
\* moment, an entry of lunch_list in the requested category.
C18_RecordedPickIsInTheList ==
    [][\A t \in Threads :
          (pc[t] = "roll_pick" /\ pc'[t] = "roll_prune")
          => chosen'[t][1] \in InCategory(args[t].category)]_vars

-----------------------------------------------------------------------------
(* C19 *)

\* C19: whatever the interleaving of the callers, a roll whose category
\* holds at least two restaurants, the same as when it read them, never
\* records the name that the pick recorded just before it recorded.
C19_NoRepeatInRecordedOrder ==
    [][\A t \in Threads :
          (/\ pc[t] = "roll_pick" /\ pc'[t] = "roll_prune"
           /\ restaurants[t] = InCategory(args[t].category)
           /\ Cardinality(restaurants[t]) >= 2)
          => Some(chosen'[t][1].name) # lastRolled]_vars

\* two rolls on one category overlap: one has recorded its pick and not yet
\* pruned, the other has read the category and waits for the Mutex
C19_Witness ==
    \E t, u \in Threads :
        /\ pc[t] = "roll_prune"
        /\ pc[u] = "roll_lock"
        /\ args[u].category = args[t].category
        /\ restaurants[u] = InCategory(args[u].category)
        /\ Cardinality(restaurants[u]) >= 2
        /\ lastRolled \in {Some(r.name) : r \in restaurants[u]}

-----------------------------------------------------------------------------
(* C20 *)

\* C20: no thread waits for the Mutex while it holds the guard itself, and
\* under a fair Mutex every operation a caller invokes returns to its
\* caller, the guard not left with that thread.
C20_NoRelockAndEveryCallCompletes ==
    /\ [](\A t \in Threads : pc[t] \in LockLabels => conn # t)
    /\ \A t \in Threads :
          (pc[t] # "idle") ~> (pc[t] = "idle" /\ conn # t)

\* roll has dropped the guard of its list query and waits for the Mutex,
\* which another thread holds
C20_Witness ==
    \E t, u \in Threads :
        /\ t # u
        /\ pc[t] = "roll_lock"
        /\ conn = u
        /\ pc[u] \notin LockLabels \cup {"idle"}

====
